---- MODULE Spec2Model ----
(***************************************************************************)
(* The sync/reconcile pipeline of the terraform controller                 *)
(* (pkg/controller/controller.go, pkg/container/kaniko.go).                *)
(*                                                                         *)
(* A sync is one invocation of Controller.handleSyncRequest.  Every call   *)
(* it makes to a collaborator (provider registry, API server) is one step  *)
(* of the sync, so that other syncs and the API server's own actors can    *)
(* interleave between two calls, as goroutines do.                         *)
(*                                                                         *)
(* Strings built with fmt.Sprintf / fmt.Errorf are sequences of pieces     *)
(* (the format's literal parts and the arguments, in order); the string is *)
(* their concatenation.  A nil error is the empty sequence.                *)
(***************************************************************************)
EXTENDS Integers, Sequences, FiniteSets, TLC

VARIABLES
    resources,    \* declared Terraform resources: identity -> spec (read only)
    status,       \* the status subresource of each declared resource
    configMaps,   \* ConfigMaps in the store: set of [ns, name, data]
    secrets,      \* Secrets in the store: set of [ns, name]
    pvcs,         \* PersistentVolumeClaims in the store: set of [ns, name]
    pods,         \* Pods in the store: set of [ns, name, finalizers, terminating,
                  \* owner, context]
    runUnits,     \* run units submitted and accepted: set of [ns, name, env]
    sync,         \* per sync task: the locals of handleSyncRequest and its position
    started,      \* number of syncs started so far (the ordinals in use)
    maxInFlight,  \* how many syncs the environment lets overlap
    scheduler,    \* Reconcile's loop: "running" or "stopped"
    faults        \* how many failures the collaborators may still report, and
                  \* how many of those spent were failures of the scheduler's
                  \* list call: [limited, left, lists]

vars == <<resources, status, configMaps, secrets, pvcs, pods, runUnits, sync,
          started, maxInFlight, scheduler, faults>>

store == <<configMaps, secrets, pvcs, pods, runUnits>>

----------------------------------------------------------------------------
(* Bounds of the model *)

\* number of syncs started in one behaviour, not counting those that ended
\* without any effect on the store
MaxSyncs == 2

\* number of distinct failure causes a collaborator can report
NumCauses == 2

\* number of failures the collaborators report in a behaviour of SpecConc
MaxFaults == 1

(* Program constants *)

maxRetries == 10

----------------------------------------------------------------------------
(* Values *)

\* the task slots; which free slot a new task takes is immaterial, so it takes
\* the first
Syncs == {1, 2}

Identities == {<<"ns1", "a">>, <<"ns2", "a">>, <<"ns1", "b">>}

NoErr == <<>>

Causes == {<<"cause" \o ToString(n)>> : n \in 1..NumCauses}

EmptyMap == [k \in {} |-> ""]

\* a Go map[string]string: nil, or a finite function from keys to values
NilMap == [isNil |-> TRUE, kv |-> EmptyMap]

MkMap(kv) == [isNil |-> FALSE, kv |-> kv]

Backends ==
    { NilMap,
      MkMap(EmptyMap),
      MkMap([foo |-> "bar"]),
      MkMap([provider |-> ""]),
      MkMap([provider |-> "doesnotexist", s3 |-> "s3-store"]),
      MkMap([provider |-> "aws", s3 |-> "s3-store"]),
      MkMap([provider |-> "aws"]) }

\* TerraformConfigSpec, the fields the pipeline's control flow reads
Specs ==
    [ deploy    : {"", "deploy.sh"},
      destroy   : {"", "destroy.sh"},
      backend   : Backends,
      variables : {NilMap} ]

\* values of spec.variables: absent, empty, one variable
VariableMaps == {NilMap, MkMap(EmptyMap), MkMap([region |-> "eu-west-1"])}

NoStatus == [state |-> "", message |-> <<>>]

NoPod == [ns |-> "", name |-> "", finalizers |-> FALSE, terminating |-> FALSE,
          owner |-> 0, context |-> ""]

\* no answer on the wire: the sync has not answered yet, or has no HTTP caller
NoReply == [code |-> 0, text |-> <<>>, body |-> NoStatus]

NoRequest == [id |-> <<"", "">>, spec |-> [deploy |-> "", destroy |-> "",
              backend |-> NilMap, variables |-> NilMap], finalizing |-> FALSE]

\* the locals of a sync that has not started
IdleSync ==
    [ pc                  |-> "idle",
      n                   |-> 0,
      origin              |-> "",
      item                |-> <<"", "">>,
      overlap             |-> FALSE,
      duringWait          |-> FALSE,
      observed            |-> NoRequest,
      envVars             |-> NilMap,
      repoDir             |-> "",
      scriptContent       |-> "",
      dockerfileAdditions |-> "",
      providerExists      |-> FALSE,
      configMapName       |-> "",
      secretName          |-> "",
      pod                 |-> NoPod,
      i                   |-> 0,
      terraformErr        |-> NoErr,
      response            |-> NoStatus,
      written             |-> NoStatus,
      log                 |-> <<>>,
      lastCause           |-> NoErr,
      latest              |-> FALSE,
      afterListError      |-> FALSE,
      reply               |-> NoReply ]

InFlight == {s \in Syncs : sync[s].pc # "idle"}

\* the syncs inside runTerraform's time.Sleep
Waiting == {s \in Syncs : sync[s].pc = "sleep"}

\* the failures the collaborators may report in a behaviour: any number, or at
\* most k
AnyFaults == [limited |-> FALSE, left |-> 0, lists |-> 0]

AtMostFaults(k) == [limited |-> TRUE, left |-> k, lists |-> 0]

----------------------------------------------------------------------------
(* Initial states *)

\* the state after NewController, with the pods ps left in the store by an
\* earlier run of the controller
InitFrom(n, ids, specs, f, ps) ==
    /\ resources \in [ids -> specs]
    /\ status = [id \in ids |-> NoStatus]
    /\ configMaps = {}
    /\ secrets = {}
    /\ pvcs = {}
    /\ pods = ps
    /\ runUnits = {}
    /\ sync = [s \in Syncs |-> IdleSync]
    /\ started = 0
    /\ maxInFlight = n
    /\ scheduler = "running"
    /\ faults = f

InitWith(n, ids, specs, f) == InitFrom(n, ids, specs, f, {})

\* The world of Spec: one declared resource, with any spec, synced up to
\* MaxSyncs times, each sync with either value of finalizing; the caller sends
\* the next request after the answer to the previous one, so the syncs do not
\* overlap (the outcome of every store call is still any the store can give).
Init == InitWith(1, {<<"ns1", "a">>}, Specs, AnyFaults)

\* The world of SpecConc: two declared resources of the same name in two
\* namespaces, each with a deploy script and no backend, and up to two syncs in
\* flight at once, for the same resource or for the two; the collaborators
\* report up to MaxFaults failures in a behaviour.
ConcIdentities == {<<"ns1", "a">>, <<"ns2", "a">>}

ConcSpecs ==
    {[deploy |-> "deploy.sh", destroy |-> "", backend |-> NilMap,
      variables |-> NilMap]}

InitConc == InitWith(2, ConcIdentities, ConcSpecs, AtMostFaults(MaxFaults))

\* The world of SpecSched: one declared resource with a deploy script and no
\* backend, and up to two syncs in flight at once, started by /sync requests
\* or by the scheduler's ticks; the collaborators report up to MaxFaults
\* failures in a behaviour.
InitSched == InitWith(2, {<<"ns1", "a">>}, ConcSpecs, AtMostFaults(MaxFaults))

\* The world of SpecVars: one declared resource with or without a deploy
\* script, no backend, and each kind of spec.variables; the syncs do not
\* overlap and the collaborators report up to MaxFaults failures.
VarSpecs ==
    [ deploy    : {"", "deploy.sh"},
      destroy   : {""},
      backend   : {NilMap},
      variables : VariableMaps ]

InitVars == InitWith(1, {<<"ns1", "a">>}, VarSpecs, AtMostFaults(MaxFaults))

----------------------------------------------------------------------------
(* Pure functions of the controller *)

Call(name, ok) == [call |-> name, ok |-> ok]

Len0(m) == Cardinality(DOMAIN m.kv)

Has(m, k) == k \in DOMAIN m.kv

Lookup(m, k) == IF Has(m, k) THEN m.kv[k] ELSE ""

\* the JSON of a declared resource, as the store lists it and as the caller of
\* /sync sends it under "parent" (its status, which the pipeline never reads,
\* is left out)
ResourceJSON(id) ==
    [ apiVersion |-> "alustan.io/v1alpha1",
      kind       |-> "Terraform",
      metadata   |-> [namespace |-> id[1], name |-> id[2]],
      spec       |-> resources[id] ]

\* the body of a /sync request
SyncBody(id, fin) == [parent |-> ResourceJSON(id), finalizing |-> fin]

\* (mutant) a request without the key "finalizing" is taken as finalizing
UnmarshalFinalizingByDefault(json) ==
    [ id         |-> IF "parent" \in DOMAIN json
                     THEN <<json.parent.metadata.namespace, json.parent.metadata.name>>
                     ELSE NoRequest.id,
      spec       |-> IF "parent" \in DOMAIN json
                     THEN json.parent.spec
                     ELSE NoRequest.spec,
      finalizing |-> IF "finalizing" \in DOMAIN json
                     THEN json.finalizing
                     ELSE TRUE ]

\* json decoding into a SyncRequest: the keys "parent" and "finalizing" are
\* read, any other key is ignored, a field without its key keeps its zero value
Unmarshal(json) ==
    [ id         |-> IF "parent" \in DOMAIN json
                     THEN <<json.parent.metadata.namespace, json.parent.metadata.name>>
                     ELSE NoRequest.id,
      spec       |-> IF "parent" \in DOMAIN json
                     THEN json.parent.spec
                     ELSE NoRequest.spec,
      finalizing |-> IF "finalizing" \in DOMAIN json
                     THEN json.finalizing
                     ELSE FALSE ]

\* a request body that is not the JSON of an object
MalformedBody == [malformed |-> TRUE]

\* ServeHTTP: json.NewDecoder(body).Decode(&observed)
Decode(body) ==
    IF "malformed" \in DOMAIN body
    THEN [err |-> <<"invalid character 'x' looking for beginning of value">>,
          observed |-> NoRequest]
    ELSE [err |-> NoErr, observed |-> Unmarshal(body)]

\* (mutant) the answer's code follows the state of the status
httpReplyByState(err, response) ==
    IF err # NoErr
    THEN [code |-> 400, text |-> err, body |-> NoStatus]
    ELSE [code |-> IF response.state = "error" THEN 500 ELSE 200,
          text |-> <<>>, body |-> response]

\* ServeHTTP's answer: 400 with the decoder's error as text, or 200 with the
\* status handleSyncRequest returned under "body"
httpReply(err, response) ==
    IF err # NoErr
    THEN [code |-> 400, text |-> err, body |-> NoStatus]
    ELSE [code |-> 200, text |-> <<>>, body |-> response]

\* (mutant) the message's prefix in lower case
errorResponseLowerCase(action, err) ==
    [state |-> "error", message |-> <<"error ", action, ": ">> \o err]

\* (mutant) the message names the action and leaves the error out
errorResponseDropsCause(action, err) ==
    [state |-> "error", message |-> <<"Error ", action, ": ">>]

\* errorResponse: fmt.Sprintf("Error %s: %v", action, err)
errorResponse(action, err) ==
    [state |-> "error", message |-> <<"Error ", action, ": ">> \o err]

\* util.ExtractEnvVars: one entry of the environment per variable
ExtractEnvVars(variables) == MkMap(variables.kv)

\* (mutant) absent variables give a default environment
extractEnvVarsDefault(variables) ==
    IF variables.isNil THEN MkMap([PATH |-> "/usr/bin"]) ELSE ExtractEnvVars(variables)

\* Controller.extractEnvVars: nil for nil, else util.ExtractEnvVars
extractEnvVars(variables) ==
    IF variables.isNil THEN NilMap ELSE ExtractEnvVars(variables)

\* handleSyncRequest, script selection: the deploy script is tested first,
\* whatever Finalizing is; the destroy script only when Finalizing
selectScript(observed) ==
    IF observed.spec.deploy = ""
    THEN [script |-> observed.spec.deploy, action |-> "executing deploy script",
          err |-> <<"deploy script is missing">>]
    ELSE IF observed.finalizing
         THEN IF observed.spec.destroy = ""
              THEN [script |-> observed.spec.destroy,
                    action |-> "executing destroy script",
                    err |-> <<"destroy script is missing">>]
              ELSE [script |-> observed.spec.destroy, action |-> "", err |-> NoErr]
         ELSE [script |-> observed.spec.deploy, action |-> "", err |-> NoErr]

\* the provider registry (package plugin): a closed set of named providers
Providers == {"aws"}

RequiredKeys(providerType) == {"s3"}

GetProvider(providerType) ==
    IF providerType \in Providers
    THEN NoErr
    ELSE <<"unknown provider: ", providerType>>

\* provider.SetupBackend: a configuration error when a required key is missing,
\* otherwise the outcome of the remote-state initialisation
ProviderSetupBackend(providerType, backend, outcome) ==
    IF RequiredKeys(providerType) \subseteq DOMAIN backend.kv
    THEN outcome
    ELSE <<"missing required backend configuration">>

GetDockerfileAdditions(providerType) == providerType \o "-dockerfile-additions"

\* (mutant) an empty provider value is looked up in the registry
setupBackendNoEmptyCheck(backend, outcome) ==
    LET skip == [additions |-> "", providerExists |-> FALSE, err |-> NoErr,
                 calls |-> <<>>]
        providerType == Lookup(backend, "provider")
    IN  IF backend.isNil \/ Len0(backend) = 0
        THEN skip
        ELSE IF ~Has(backend, "provider")
        THEN skip
        ELSE IF GetProvider(providerType) # NoErr
        THEN [additions |-> "", providerExists |-> FALSE,
              err |-> <<"error getting provider: ">> \o GetProvider(providerType),
              calls |-> <<Call("GetProvider", FALSE)>>]
        ELSE IF ProviderSetupBackend(providerType, backend, outcome) # NoErr
        THEN [additions |-> "", providerExists |-> FALSE,
              err |-> <<"error setting up ", providerType, " backend: ">>
                      \o ProviderSetupBackend(providerType, backend, outcome),
              calls |-> <<Call("GetProvider", TRUE), Call("SetupBackend", FALSE)>>]
        ELSE [additions |-> GetDockerfileAdditions(providerType),
              providerExists |-> TRUE, err |-> NoErr,
              calls |-> <<Call("GetProvider", TRUE), Call("SetupBackend", TRUE),
                          Call("GetDockerfileAdditions", TRUE)>>]

\* (mutant) the registry's error is dropped and the provider is used anyway
setupBackendIgnoresLookupError(backend, outcome) ==
    LET skip == [additions |-> "", providerExists |-> FALSE, err |-> NoErr,
                 calls |-> <<>>]
        providerType == Lookup(backend, "provider")
        found == GetProvider(providerType) = NoErr
    IN  IF backend.isNil \/ Len0(backend) = 0
        THEN skip
        ELSE IF ~Has(backend, "provider") \/ providerType = ""
        THEN skip
        ELSE IF ProviderSetupBackend(providerType, backend, outcome) # NoErr
        THEN [additions |-> "", providerExists |-> FALSE,
              err |-> <<"error setting up ", providerType, " backend: ">>
                      \o ProviderSetupBackend(providerType, backend, outcome),
              calls |-> <<Call("GetProvider", found), Call("SetupBackend", FALSE)>>]
        ELSE [additions |-> GetDockerfileAdditions(providerType),
              providerExists |-> TRUE, err |-> NoErr,
              calls |-> <<Call("GetProvider", found), Call("SetupBackend", TRUE),
                          Call("GetDockerfileAdditions", TRUE)>>]

\* setupBackend; outcome is what the provider's remote-state initialisation
\* answers if it is reached; calls lists the collaborator calls made
setupBackend(backend, outcome) ==
    LET skip == [additions |-> "", providerExists |-> FALSE, err |-> NoErr,
                 calls |-> <<>>]
        providerType == Lookup(backend, "provider")
    IN  IF backend.isNil \/ Len0(backend) = 0
        THEN skip
        ELSE IF ~Has(backend, "provider") \/ providerType = ""
        THEN skip
        ELSE IF GetProvider(providerType) # NoErr
        THEN [additions |-> "", providerExists |-> FALSE,
              err |-> <<"error getting provider: ">> \o GetProvider(providerType),
              calls |-> <<Call("GetProvider", FALSE)>>]
        ELSE IF ProviderSetupBackend(providerType, backend, outcome) # NoErr
        THEN [additions |-> "", providerExists |-> FALSE,
              err |-> <<"error setting up ", providerType, " backend: ">>
                      \o ProviderSetupBackend(providerType, backend, outcome),
              calls |-> <<Call("GetProvider", TRUE), Call("SetupBackend", FALSE)>>]
        ELSE [additions |-> GetDockerfileAdditions(providerType),
              providerExists |-> TRUE, err |-> NoErr,
              calls |-> <<Call("GetProvider", TRUE), Call("SetupBackend", TRUE),
                          Call("GetDockerfileAdditions", TRUE)>>]

\* (mutant) the status after the loop has no message
runStatusNoMessage(terraformErr) ==
    [state |-> IF terraformErr # NoErr THEN "Failed" ELSE "Success", message |-> <<>>]

\* runTerraform, after the loop: the status from the last attempt's error
runStatus(terraformErr) ==
    IF terraformErr # NoErr
    THEN [state |-> "Failed", message |-> terraformErr]
    ELSE [state |-> "Success", message |-> <<"Terraform applied successfully">>]

\* (mutant) the error of the first failed attempt is kept
keepFirstErr(old, new) == IF old # NoErr /\ new # NoErr THEN old ELSE new

\* runTerraform: terraformErr = container.CreateRunPod(...), an assignment to
\* the variable declared before the loop
assignErr(old, new) == new

\* (mutant) the loop's bound off by one
loopConditionOffByOne(i) == i <= maxRetries

\* runTerraform, the loop's condition
loopCondition(i) == i < maxRetries

\* handleSyncRequest: filepath.Join("/tmp", name); CreateBuildPod: "/tmp/" + name
repoDirOf(name) == "/tmp/" \o name

\* (mutant) the write replaces the whole object by the request's zero spec
statusWriteClobbersSpec(id, st) == [spec |-> NoRequest.spec, status |-> st]

\* kubernetes.UpdateStatus: the object of the resource after the write
statusWrite(id, st) == [spec |-> resources[id], status |-> st]

\* object names derived from the resource's name
secretNameOf(name) == name \o "-container-secret"

podNameOf(name) == name \o "-docker-build-pod"

configMapNameOf(name) == name \o "-dockerfile-configmap"

pvcNameOf(name) == name \o "-kaniko-pvc"

\* (mutant) a failed stage returns its error response without the status write
afterStageNoWrite(l, action, err, next) ==
    IF err # NoErr
    THEN [l EXCEPT !.response = errorResponse(action, err), !.pc = "done"]
    ELSE [l EXCEPT !.pc = next]

\* (mutant) a failed stage does not return: the next stage runs
afterStageContinues(l, action, err, next) == [l EXCEPT !.pc = next]

\* (mutant) a failed stage is reported like a failed run
afterStageReportsFailed(l, action, err, next) ==
    IF err # NoErr
    THEN [l EXCEPT !.response = [state |-> "Failed", message |-> err],
                   !.lastCause = err, !.pc = "write"]
    ELSE [l EXCEPT !.pc = next]

\* handleSyncRequest, after a stage: the error response and the status write
\* when the stage returned an error, the next stage otherwise
afterStage(l, action, err, next) ==
    IF err # NoErr
    THEN [l EXCEPT !.response = errorResponse(action, err), !.lastCause = err,
                   !.pc = "write"]
    ELSE [l EXCEPT !.pc = next]

Logged(l, calls) == [l EXCEPT !.log = @ \o calls]

----------------------------------------------------------------------------
(* The store (API server), as the pipeline's calls see it *)

\* the failures a collaborator can report now, and what is left after err
Faults == IF faults.limited /\ faults.left = 0 THEN {} ELSE Causes

Spent(err) ==
    IF err \in Causes /\ faults.limited
    THEN [faults EXCEPT !.left = @ - 1]
    ELSE faults

Outcomes == {NoErr} \cup Faults

\* err ends with the cause a collaborator reported
Reported(err, cause) ==
    cause # NoErr /\ Len(err) > 0 /\ err[Len(err)] = cause[Len(cause)]

PodsAt(ns, name) == {p \in pods : p.ns = ns /\ p.name = name}

NotFound(name) == <<"pods \"", name, "\" not found">>

AlreadyExists(name) == <<"pods \"", name, "\" already exists">>

Put(objects, obj) ==
    {o \in objects : ~(o.ns = obj.ns /\ o.name = obj.name)} \cup {obj}

Ns(l) == l.observed.id[1]

Name(l) == l.observed.id[2]

\* (mutant) a sync's step needs a lock that a waiting sync holds
SetUnderLock(s, l) ==
    /\ Waiting \ {s} = {}
    /\ sync' = [sync EXCEPT ![s] = l]

Set(s, l) == sync' = [sync EXCEPT ![s] = l]

----------------------------------------------------------------------------
(* The steps of one sync: Controller.handleSyncRequest *)

\* ServeHTTP decodes a request for a declared resource and enters
\* handleSyncRequest
StartSync(s) ==
    /\ sync[s].pc = "idle"
    /\ \A t \in Syncs : t < s => sync[t].pc # "idle"
    /\ started < MaxSyncs
    /\ Cardinality(InFlight) < maxInFlight
    /\ \E id \in DOMAIN resources, fin \in BOOLEAN :
          Set(s, [IdleSync EXCEPT
                    !.pc = "select",
                    !.n = started + 1,
                    !.origin = "http",
                    !.item = id,
                    !.overlap = (InFlight # {}),
                    !.duringWait = (Waiting # {}),
                    !.observed = Decode(SyncBody(id, fin)).observed])
    /\ started' = started + 1
    /\ UNCHANGED <<resources, status, store, maxInFlight, scheduler, faults>>

\* ServeHTTP with a body the decoder rejects: the answer is written and the
\* handler returns without calling handleSyncRequest
ServeBadRequest(s) ==
    /\ sync[s].pc = "idle"
    /\ \A t \in Syncs : t < s => sync[t].pc # "idle"
    /\ started < MaxSyncs
    /\ Cardinality(InFlight) < maxInFlight
    /\ LET d == Decode(MalformedBody)
       IN  Set(s, [IdleSync EXCEPT
                     !.pc = IF d.err # NoErr THEN "rejected" ELSE "select",
                     !.n = started + 1,
                     !.origin = "http",
                     !.observed = d.observed,
                     !.reply = IF d.err # NoErr THEN httpReply(d.err, NoStatus)
                               ELSE NoReply])
    /\ started' = started + 1
    /\ UNCHANGED <<resources, status, store, maxInFlight, scheduler, faults>>

\* handleSyncRequest's first statements: the environment is derived from the
\* variables, then the script is selected
SelectScript(s) ==
    /\ sync[s].pc = "select"
    /\ LET l   == sync[s]
           sel == selectScript(l.observed)
       IN  Set(s, afterStage(
                    Logged([l EXCEPT !.envVars =
                                        extractEnvVars(l.observed.spec.variables),
                                     !.scriptContent = sel.script,
                                     !.repoDir = IF sel.err = NoErr
                                                 THEN repoDirOf(Name(l))
                                                 ELSE ""],
                           <<Call("selectScript", sel.err = NoErr)>>),
                    sel.action, sel.err, "backend"))
    /\ UNCHANGED <<resources, status, store, started, maxInFlight, scheduler, faults>>

\* (mutant) a failed backend setup is tried again
SetupBackendRetries(s) ==
    /\ sync[s].pc = "backend"
    /\ \E outcome \in Outcomes :
          LET l == sync[s]
              r == setupBackend(l.observed.spec.backend, outcome)
          IN  /\ faults' = IF Reported(r.err, outcome) THEN Spent(outcome) ELSE faults
              /\ Set(s, IF r.err # NoErr
                        THEN Logged(l, r.calls)
                        ELSE [Logged([l EXCEPT !.dockerfileAdditions = r.additions,
                                               !.providerExists = r.providerExists],
                                     r.calls) EXCEPT !.pc = "configmap"])
    /\ UNCHANGED <<resources, status, store, started, maxInFlight, scheduler>>

\* backend setup
SetupBackend(s) ==
    /\ sync[s].pc = "backend"
    /\ \E outcome \in Outcomes :
          LET l == sync[s]
              r == setupBackend(l.observed.spec.backend, outcome)
          IN  /\ faults' = IF Reported(r.err, outcome) THEN Spent(outcome) ELSE faults
              /\ Set(s, afterStage(
                          Logged([l EXCEPT !.dockerfileAdditions = r.additions,
                                           !.providerExists = r.providerExists],
                                 r.calls),
                          "setting up backend", r.err, "configmap"))
    /\ UNCHANGED <<resources, status, store, started, maxInFlight, scheduler>>

\* container.CreateDockerfileConfigMap
CreateDockerfileConfigMap(s) ==
    /\ sync[s].pc = "configmap"
    /\ \E err \in Outcomes :
          LET l == sync[s]
              cm == [ns |-> Ns(l), name |-> configMapNameOf(Name(l)),
                     data |-> l.dockerfileAdditions]
          IN  /\ faults' = Spent(err)
              /\ configMaps' = IF err = NoErr THEN Put(configMaps, cm) ELSE configMaps
              /\ Set(s, afterStage(
                          Logged([l EXCEPT !.configMapName =
                                     IF err = NoErr THEN cm.name ELSE ""],
                                 <<Call("CreateDockerfileConfigMap", err = NoErr)>>),
                          "creating Dockerfile ConfigMap", err, "secret"))
    /\ UNCHANGED <<resources, status, secrets, pvcs, pods, runUnits, started,
                   maxInFlight, scheduler>>

\* container.CreateDockerConfigSecret
CreateDockerConfigSecret(s) ==
    /\ sync[s].pc = "secret"
    /\ \E err \in Outcomes :
          LET l  == sync[s]
              sn == secretNameOf(Name(l))
          IN  /\ faults' = Spent(err)
              /\ secrets' = IF err = NoErr
                            THEN Put(secrets, [ns |-> Ns(l), name |-> sn])
                            ELSE secrets
              /\ Set(s, afterStage(
                          Logged([l EXCEPT !.secretName = sn],
                                 <<Call("CreateDockerConfigSecret", err = NoErr)>>),
                          "creating Docker config secret", err, "build"))
    /\ UNCHANGED <<resources, status, configMaps, pvcs, pods, runUnits, started,
                   maxInFlight, scheduler>>

\* (mutant) a not-found answer to a patch or a delete is taken as success
buildStepToleratesNotFound(l, err, next) ==
    IF err # NoErr /\ err[Len(err)] # "\" not found"
    THEN afterStage(l, "creating build job", err, "run")
    ELSE [l EXCEPT !.pc = next]

\* (mutant) a failed call of the build stage starts the build again
buildStepRetries(l, err, next) ==
    IF err # NoErr
    THEN [l EXCEPT !.pc = "build"]
    ELSE [l EXCEPT !.pc = next]

\* CreateBuildPod: a failed call makes it return the error to buildAndTagImage
\* and handleSyncRequest; otherwise it goes on to its next call
buildStep(l, err, next) ==
    IF err # NoErr
    THEN afterStage(l, "creating build job", err, "run")
    ELSE [l EXCEPT !.pc = next]

\* (mutant) the task blocks for ever once the loop's attempts are used up
loopTestHangs(l) ==
    IF loopCondition(l.i)
    THEN [l EXCEPT !.pc = "run"]
    ELSE [l EXCEPT !.pc = "blocked"]

\* runTerraform: the test of the for loop, and the status after the loop
loopTest(l) ==
    IF loopCondition(l.i)
    THEN [l EXCEPT !.pc = "run"]
    ELSE [l EXCEPT !.response = runStatus(l.terraformErr), !.pc = "write"]

\* (mutant) a failed EnsurePVC removes the ConfigMap and the Secret of the sync
BuildEnsurePVCRollsBack(s) ==
    /\ sync[s].pc = "build"
    /\ \E err \in Outcomes :
          LET l == sync[s]
          IN  /\ faults' = Spent(err)
              /\ pvcs' = IF err = NoErr
                         THEN Put(pvcs, [ns |-> Ns(l), name |-> pvcNameOf(Name(l))])
                         ELSE pvcs
              /\ configMaps' = IF err = NoErr
                               THEN configMaps
                               ELSE {cm \in configMaps :
                                       cm.ns # Ns(l) \/ cm.name # l.configMapName}
              /\ secrets' = IF err = NoErr
                            THEN secrets
                            ELSE secrets \ {[ns |-> Ns(l), name |-> l.secretName]}
              /\ Set(s, buildStep(Logged(l, <<Call("EnsurePVC", err = NoErr)>>),
                                  err, "buildGet"))
    /\ UNCHANGED <<resources, status, pods, runUnits, started, maxInFlight, scheduler>>

\* (mutant) the build goes on to its pod whatever EnsurePVC returned
BuildEnsurePVCIgnoresError(s) ==
    /\ sync[s].pc = "build"
    /\ \E err \in Outcomes :
          LET l == sync[s]
          IN  /\ faults' = Spent(err)
              /\ pvcs' = IF err = NoErr
                         THEN Put(pvcs, [ns |-> Ns(l), name |-> pvcNameOf(Name(l))])
                         ELSE pvcs
              /\ Set(s, buildStep(Logged(l, <<Call("EnsurePVC", err = NoErr)>>),
                                  NoErr, "buildGet"))
    /\ UNCHANGED <<resources, status, configMaps, secrets, pods, runUnits, started,
                   maxInFlight, scheduler>>

\* CreateBuildPod: EnsurePVC (create if absent)
BuildEnsurePVC(s) ==
    /\ sync[s].pc = "build"
    /\ \E err \in Outcomes :
          LET l == sync[s]
          IN  /\ faults' = Spent(err)
              /\ pvcs' = IF err = NoErr
                         THEN Put(pvcs, [ns |-> Ns(l), name |-> pvcNameOf(Name(l))])
                         ELSE pvcs
              /\ Set(s, buildStep(Logged(l, <<Call("EnsurePVC", err = NoErr)>>),
                                  err, "buildGet"))
    /\ UNCHANGED <<resources, status, configMaps, secrets, pods, runUnits, started,
                   maxInFlight, scheduler>>

\* (mutant) the finalizer patch is issued whatever the lookup returned
afterGetAlwaysPatches(p) == "buildPatch"

\* (mutant) the delete is issued also when the lookup found no pod
afterGetAlwaysDeletes(p) ==
    IF p # NoPod /\ p.finalizers THEN "buildPatch" ELSE "buildDelete"

\* CreateBuildPod, after Get returned p (NoPod for not-found): patch the
\* finalizers away if the pod has any, else delete it; create if there is none
afterGet(p) ==
    IF p = NoPod THEN "buildCreate"
    ELSE IF p.finalizers THEN "buildPatch"
    ELSE "buildDelete"

\* CreateBuildPod: Pods(namespace).Get; not-found is no error here
BuildGetPod(s) ==
    /\ sync[s].pc = "buildGet"
    /\ LET l     == sync[s]
           found == PodsAt(Ns(l), podNameOf(Name(l)))
       IN  \/ \E err \in Faults :
                /\ faults' = Spent(err)
                /\ Set(s, buildStep(Logged(l, <<Call("GetPod", FALSE)>>), err,
                                    "buildGet"))
           \/ /\ found = {}
              /\ faults' = faults
              /\ Set(s, buildStep(Logged(l, <<Call("GetPod", TRUE)>>), NoErr,
                                  afterGet(NoPod)))
           \/ \E p \in found :
                /\ faults' = faults
                /\ Set(s, buildStep(Logged([l EXCEPT !.pod = p],
                                           <<Call("GetPod", TRUE)>>),
                                    NoErr, afterGet(p)))
    /\ UNCHANGED <<resources, status, store, started, maxInFlight, scheduler>>

\* removeFinalizers: merge patch {"metadata":{"finalizers":[]}}
BuildRemoveFinalizers(s) ==
    /\ sync[s].pc = "buildPatch"
    /\ LET l     == sync[s]
           pn    == podNameOf(Name(l))
           found == PodsAt(Ns(l), pn)
       IN  \/ /\ \E err \in Faults \cup (IF found = {} THEN {NotFound(pn)} ELSE {}) :
                    /\ faults' = Spent(err)
                    /\ Set(s, buildStep(Logged(l, <<Call("PatchPod", FALSE)>>), err,
                                        "buildPatch"))
              /\ pods' = pods
           \/ /\ found # {}
              /\ faults' = faults
              /\ pods' = {IF p \in found THEN [p EXCEPT !.finalizers = FALSE] ELSE p :
                            p \in pods}
              /\ Set(s, buildStep(Logged(l, <<Call("PatchPod", TRUE)>>), NoErr,
                                  "buildDelete"))
    /\ UNCHANGED <<resources, status, configMaps, secrets, pvcs, runUnits, started,
                   maxInFlight, scheduler>>

\* CreateBuildPod: Pods(namespace).Delete; the pod is marked for deletion and
\* goes away later
BuildDeletePod(s) ==
    /\ sync[s].pc = "buildDelete"
    /\ LET l     == sync[s]
           pn    == podNameOf(Name(l))
           found == PodsAt(Ns(l), pn)
       IN  \/ /\ \E err \in Faults \cup (IF found = {} THEN {NotFound(pn)} ELSE {}) :
                    /\ faults' = Spent(err)
                    /\ Set(s, buildStep(Logged(l, <<Call("DeletePod", FALSE)>>), err,
                                        "buildDelete"))
              /\ pods' = pods
           \/ /\ found # {}
              /\ faults' = faults
              /\ pods' = {IF p \in found THEN [p EXCEPT !.terminating = TRUE] ELSE p :
                            p \in pods}
              /\ Set(s, buildStep(Logged(l, <<Call("DeletePod", TRUE)>>), NoErr,
                                  "buildCreate"))
    /\ UNCHANGED <<resources, status, configMaps, secrets, pvcs, runUnits, started,
                   maxInFlight, scheduler>>

\* CreateBuildPod: Pods(namespace).Create; a pod of that name still in the
\* store, terminating or not, makes the create fail
BuildCreatePod(s) ==
    /\ sync[s].pc = "buildCreate"
    /\ LET l     == sync[s]
           pn    == podNameOf(Name(l))
           found == PodsAt(Ns(l), pn)
       IN  \/ /\ \E err \in Faults \cup (IF found # {} THEN {AlreadyExists(pn)} ELSE {}) :
                    /\ faults' = Spent(err)
                    /\ Set(s, buildStep(Logged(l, <<Call("CreatePod", FALSE)>>), err,
                                        "buildCreate"))
              /\ pods' = pods
           \/ /\ found = {}
              /\ faults' = faults
              /\ pods' = pods \cup {[ns |-> Ns(l), name |-> pn, finalizers |-> FALSE,
                                     terminating |-> FALSE, owner |-> l.n,
                                     context |-> repoDirOf(Name(l))]}
              /\ Set(s, loopTest(buildStep(Logged(l, <<Call("CreatePod", TRUE)>>),
                                           NoErr, "run")))
    /\ UNCHANGED <<resources, status, configMaps, secrets, pvcs, runUnits, started,
                   maxInFlight, scheduler>>

\* runTerraform: one iteration's container.CreateRunPod; success breaks the loop
RunAttempt(s) ==
    /\ sync[s].pc = "run"
    /\ \E err \in Outcomes :
          LET l  == sync[s]
              l1 == Logged([l EXCEPT !.terraformErr = assignErr(@, err),
                                     !.lastCause = err],
                           <<Call("CreateRunPod", err = NoErr)>>)
          IN  /\ faults' = Spent(err)
              /\ runUnits' = IF err = NoErr
                             THEN runUnits \cup {[ns |-> Ns(l), name |-> Name(l),
                                                   env |-> l.envVars]}
                             ELSE runUnits
              /\ Set(s, IF err = NoErr
                        THEN [l1 EXCEPT !.response = runStatus(l1.terraformErr),
                                        !.pc = "write"]
                        ELSE [l1 EXCEPT !.pc = "sleep"])
    /\ UNCHANGED <<resources, status, configMaps, secrets, pvcs, pods, started,
                   maxInFlight, scheduler>>

\* runTerraform: time.Sleep(1 * time.Minute) at the end of a failed iteration,
\* then i++ and the loop's test
Sleep(s) ==
    /\ sync[s].pc = "sleep"
    /\ LET l == sync[s]
       IN  Set(s, loopTest(Logged([l EXCEPT !.i = @ + 1], <<Call("Sleep", TRUE)>>)))
    /\ UNCHANGED <<resources, status, store, started, maxInFlight, scheduler, faults>>

\* (mutant) a failed status write is made again
afterWriteRetries(ok) == IF ok THEN "done" ELSE "write"

\* updateStatus returns nothing, and handleSyncRequest returns its status
\* right after the call, whether the write was made or not
afterWrite(ok) == "done"

\* updateStatus: kubernetes.UpdateStatus; an error is logged and dropped.  The
\* write can succeed only for a resource the store holds; it replaces the
\* status, whoever wrote it before.
UpdateStatus(s) ==
    /\ sync[s].pc = "write"
    /\ \E ok \in BOOLEAN :
          LET l   == sync[s]
              id  == l.observed.id
              obj == statusWrite(id, l.response)
          IN  /\ ok => id \in DOMAIN resources
              /\ ~ok => (id \notin DOMAIN resources \/ Faults # {})
              /\ faults' = IF ~ok /\ id \in DOMAIN resources /\ faults.limited
                           THEN [faults EXCEPT !.left = @ - 1]
                           ELSE faults
              /\ resources' = IF ok THEN [resources EXCEPT ![id] = obj.spec]
                              ELSE resources
              /\ status' = IF ok THEN [status EXCEPT ![id] = obj.status] ELSE status
              /\ sync' = [t \in Syncs |->
                           IF t = s
                           THEN Logged([l EXCEPT !.written = l.response,
                                                 !.pc = afterWrite(ok),
                                                 !.latest = ok,
                                                 !.reply = IF l.origin = "http"
                                                           THEN httpReply(NoErr, l.response)
                                                           ELSE NoReply],
                                       <<Call("UpdateStatus", ok)>>)
                           ELSE IF ok /\ sync[t].observed.id = id
                                THEN [sync[t] EXCEPT !.latest = FALSE]
                                ELSE sync[t]]
    /\ UNCHANGED <<store, started, maxInFlight, scheduler>>

\* the calls that change the store when they succeed
WritingCalls ==
    {"CreateDockerfileConfigMap", "CreateDockerConfigSecret", "EnsurePVC",
     "PatchPod", "DeletePod", "CreatePod", "CreateRunPod", "UpdateStatus"}

\* the sync has changed nothing in the store
Traceless(l) ==
    \A k \in 1..Len(l.log) : l.log[k].call \in WritingCalls => ~l.log[k].ok

\* handleSyncRequest returns its status, or ServeHTTP returns after its 400;
\* the task ends.  The ordinal of the
\* sync started last is free again if that sync changed nothing, so that MaxSyncs
\* does not stop a scheduler whose syncs have no effect.
Return(s) ==
    /\ sync[s].pc \in {"done", "rejected"}
    /\ Set(s, IdleSync)
    /\ started' = IF Traceless(sync[s]) /\ sync[s].n = started
                  THEN started - 1
                  ELSE started
    /\ UNCHANGED <<resources, status, store, maxInFlight, scheduler, faults>>

----------------------------------------------------------------------------
(* The scheduler: Controller.Reconcile *)

\* (mutant) a pass starts its tasks only when no sync is in flight
tickWaitsForSyncs(inFlight, listed) ==
    /\ inFlight = {}
    /\ started + Cardinality(listed) <= MaxSyncs
    /\ Cardinality(listed) <= maxInFlight

\* reconcileLoop starts its goroutines whatever is in flight; the model has
\* room for maxInFlight tasks at a time and MaxSyncs tasks in a behaviour
tickMayStart(inFlight, listed) ==
    /\ started + Cardinality(listed) <= MaxSyncs
    /\ Cardinality(inFlight) + Cardinality(listed) <= maxInFlight

\* (mutant) a failed list ends Reconcile's loop
afterListErrorExits == "stopped"

\* reconcileLoop's return after a failed list goes back into Reconcile's for
\* loop, which sleeps and calls reconcileLoop again
afterListError == "running"

\* One iteration of Reconcile's loop whose list fails: the error is logged and
\* reconcileLoop returns before its range loop.
TickListFails ==
    /\ scheduler = "running"
    /\ Faults # {}
    /\ faults' = IF faults.limited
                 THEN [faults EXCEPT !.left = @ - 1, !.lists = @ + 1]
                 ELSE faults
    /\ scheduler' = afterListError
    /\ UNCHANGED <<resources, status, store, sync, started, maxInFlight>>

\* One pass of reconcileLoop whose list succeeds: one goroutine is started per
\* listed resource and the pass ends without waiting for any of them; each
\* goroutine marshals its item to JSON, decodes that JSON into a SyncRequest
\* and enters handleSyncRequest.
TickSpawns ==
    LET listed == DOMAIN resources
        free   == Syncs \ InFlight
    IN  /\ scheduler = "running"
        /\ tickMayStart(InFlight, listed)
        /\ \E slot \in [listed -> free] :
              /\ \A a, b \in listed : a # b => slot[a] # slot[b]
              /\ sync' = [s \in Syncs |->
                   IF \E id \in listed : slot[id] = s
                   THEN LET id == CHOOSE id \in listed : slot[id] = s
                        IN  [IdleSync EXCEPT
                               !.pc = "select",
                               !.n = started + Cardinality(
                                        {x \in listed : slot[x] <= s}),
                               !.origin = "scheduler",
                               !.item = id,
                               !.overlap = (InFlight # {}),
                               !.duringWait = (Waiting # {}),
                               !.afterListError = (faults.lists > 0),
                               !.observed = Unmarshal(ResourceJSON(id))]
                   ELSE sync[s]]
        /\ started' = started + Cardinality(listed)
        /\ UNCHANGED <<resources, status, store, maxInFlight, scheduler, faults>>

\* Controller.Reconcile: one pass of the loop
Tick == TickListFails \/ TickSpawns

----------------------------------------------------------------------------
(* Other actors on the store *)

\* some controller puts a finalizer on a live pod
AddFinalizer ==
    /\ \E p \in pods :
          /\ ~p.terminating
          /\ ~p.finalizers
          /\ pods' = (pods \ {p}) \cup {[p EXCEPT !.finalizers = TRUE]}
    /\ UNCHANGED <<resources, status, configMaps, secrets, pvcs, runUnits, sync,
                   started, maxInFlight, scheduler, faults>>

\* the API server removes a pod marked for deletion once it has no finalizers
PodRemoved ==
    /\ \E p \in pods :
          /\ p.terminating
          /\ ~p.finalizers
          /\ pods' = pods \ {p}
    /\ UNCHANGED <<resources, status, configMaps, secrets, pvcs, runUnits, sync,
                   started, maxInFlight, scheduler, faults>>

----------------------------------------------------------------------------

Next ==
    \/ \E s \in Syncs : StartSync(s)
    \/ \E s \in Syncs : ServeBadRequest(s)
    \/ \E s \in Syncs : SelectScript(s)
    \/ \E s \in Syncs : SetupBackend(s)
    \/ \E s \in Syncs : CreateDockerfileConfigMap(s)
    \/ \E s \in Syncs : CreateDockerConfigSecret(s)
    \/ \E s \in Syncs : BuildEnsurePVC(s)
    \/ \E s \in Syncs : BuildGetPod(s)
    \/ \E s \in Syncs : BuildRemoveFinalizers(s)
    \/ \E s \in Syncs : BuildDeletePod(s)
    \/ \E s \in Syncs : BuildCreatePod(s)
    \/ \E s \in Syncs : RunAttempt(s)
    \/ \E s \in Syncs : Sleep(s)
    \/ \E s \in Syncs : UpdateStatus(s)
    \/ \E s \in Syncs : Return(s)
    \/ Tick
    \/ AddFinalizer
    \/ PodRemoved

Spec == Init /\ [][Next]_vars

SpecConc == InitConc /\ [][Next]_vars

SpecSched == InitSched /\ [][Next]_vars

SpecVars == InitVars /\ [][Next]_vars

\* The world of SpecStale: one declared resource with a deploy script and no
\* backend, whose build pod of an earlier run is still in the store, with or
\* without a finalizer, marked for deletion by another actor or not; the
\* syncs do not overlap and the collaborators report up to MaxFaults failures.
StalePods ==
    { [ns |-> "ns1", name |-> podNameOf("a"), finalizers |-> fz,
       terminating |-> tm, owner |-> 0, context |-> repoDirOf("a")] :
         fz \in BOOLEAN, tm \in BOOLEAN }

InitStale ==
    \E p \in StalePods :
        InitFrom(1, {<<"ns1", "a">>}, ConcSpecs, AtMostFaults(MaxFaults), {p})

SpecStale == InitStale /\ [][Next]_vars

\* The world of SpecTear: that of SpecSched, for a resource that has both
\* scripts, so that a /sync request with finalizing=true runs the destroy
\* script while the scheduler lists the resource.
TearSpecs ==
    [ deploy    : {"deploy.sh"},
      destroy   : {"destroy.sh"},
      backend   : {NilMap},
      variables : {NilMap} ]

InitTear == InitWith(2, {<<"ns1", "a">>}, TearSpecs, AtMostFaults(MaxFaults))

SpecTear == InitTear /\ [][Next]_vars

\* the steps of one sync task after its start
SyncStep(s) ==
    \/ SelectScript(s)
    \/ SetupBackend(s)
    \/ CreateDockerfileConfigMap(s)
    \/ CreateDockerConfigSecret(s)
    \/ BuildEnsurePVC(s)
    \/ BuildGetPod(s)
    \/ BuildRemoveFinalizers(s)
    \/ BuildDeletePod(s)
    \/ BuildCreatePod(s)
    \/ RunAttempt(s)
    \/ Sleep(s)
    \/ UpdateStatus(s)
    \/ Return(s)

\* SpecSched with the scheduling of the program: Reconcile's loop keeps
\* ticking and every started task keeps running.  Nothing makes a caller send
\* a /sync request.
FairSpec ==
    /\ InitSched
    /\ [][Next]_vars
    /\ WF_vars(Tick)
    /\ \A s \in Syncs : WF_vars(SyncStep(s))

\* The world of FairSeq: that of Spec, with one backend of each kind (none, an
\* unknown provider, a provider that is set up).
SeqSpecs ==
    [ deploy    : {"", "deploy.sh"},
      destroy   : {"", "destroy.sh"},
      backend   : { NilMap,
                    MkMap([provider |-> "doesnotexist", s3 |-> "s3-store"]),
                    MkMap([provider |-> "aws", s3 |-> "s3-store"]) },
      variables : {NilMap} ]

InitSeq == InitWith(1, {<<"ns1", "a">>}, SeqSpecs, AnyFaults)

\* The scheduling of the program: every started task keeps running (each of
\* its calls returns).  Nothing makes a caller send a /sync request and
\* nothing is assumed of the scheduler or of the store's other actors.
FairSeq ==
    /\ InitSeq
    /\ [][Next]_vars
    /\ \A s \in Syncs : WF_vars(SyncStep(s))

----------------------------------------------------------------------------
(* Reading a sync's call log *)

Count(log, c) == Cardinality({k \in 1..Len(log) : log[k].call = c})

CountOf(log, e) == Cardinality({k \in 1..Len(log) : log[k] = e})

Contains(msg, piece) == \E k \in 1..Len(msg) : msg[k] = piece

Finished(l) == l.pc = "done"

\* the script the request asks for
Selected(observed) ==
    IF observed.finalizing THEN observed.spec.destroy ELSE observed.spec.deploy

\* the stage a logged call belongs to
StageOf(c) ==
    CASE c = "selectScript" -> 1
      [] c \in {"GetProvider", "SetupBackend", "GetDockerfileAdditions"} -> 2
      [] c = "CreateDockerfileConfigMap" -> 3
      [] c = "CreateDockerConfigSecret" -> 4
      [] c \in {"EnsurePVC", "GetPod", "PatchPod", "DeletePod", "CreatePod"} -> 5
      [] c \in {"CreateRunPod", "Sleep"} -> 6
      [] c = "UpdateStatus" -> 7

\* the calls that act on the backend, the store's objects or the run unit
StageCalls ==
    {"GetProvider", "SetupBackend", "GetDockerfileAdditions",
     "CreateDockerfileConfigMap", "CreateDockerConfigSecret", "EnsurePVC", "GetPod",
     "PatchPod", "DeletePod", "CreatePod", "CreateRunPod", "Sleep"}

NoCallIn(log, calls) == \A k \in 1..Len(log) : log[k].call \notin calls

----------------------------------------------------------------------------
(* C1 *)

\* C1: every invocation of handleSyncRequest issues exactly one status write:
\* none before the sync's last step, one once it returns, and the written
\* value is the status it returns.
C1_ExactlyOneStatusWrite ==
    \A s \in Syncs :
        LET l == sync[s]
        IN  /\ Count(l.log, "UpdateStatus") = (IF Finished(l) THEN 1 ELSE 0)
            /\ Finished(l) => /\ l.written = l.response
                              /\ l.response # NoStatus
                              /\ l.log[Len(l.log)].call = "UpdateStatus"

\* a sync that exhausted its run attempts has returned
C1_Witness ==
    \E s \in Syncs :
        /\ Finished(sync[s])
        /\ sync[s].response.state = "Failed"
        /\ Count(sync[s].log, "UpdateStatus") = 1

----------------------------------------------------------------------------
(* C2 *)

\* C2: the calls of one sync are in the order of the stages (script selection,
\* backend, ConfigMap, Secret, build, run, status write), a stage is entered
\* only after the stages before it succeeded, and a failed call of a stage
\* before the run stage is followed by nothing but the status write.
C2_StagesInOrder ==
    \A s \in Syncs :
        LET log == sync[s].log
        IN  /\ Len(log) > 0 => log[1].call = "selectScript"
            /\ \A k \in 1..(Len(log) - 1) :
                  LET here == StageOf(log[k].call)
                      next == StageOf(log[k + 1].call)
                  IN  /\ here <= next
                      /\ (~log[k].ok /\ here < 6) => next = 7
                      /\ next \in 2..6 => (next - here <= 1 \/ (here = 1 /\ next = 3))
                      /\ (next \in 2..6 /\ next # here) => log[k].ok
                      /\ here # 7

\* a sync whose Secret stage failed has returned
C2_Witness ==
    \E s \in Syncs :
        /\ Finished(sync[s])
        /\ CountOf(sync[s].log, Call("CreateDockerConfigSecret", FALSE)) = 1

----------------------------------------------------------------------------
(* C3 *)

\* C3: script selection depends only on the selected script: the script run
\* is deploy when finalizing is false and destroy when it is true, and the
\* sync ends with a missing-script error exactly when the selected script is
\* empty.
C3_SelectionBySelectedScript ==
    \A s \in Syncs :
        LET l == sync[s]
        IN  l.pc \notin {"idle", "rejected", "select"}
                => /\ (l.log[1] = Call("selectScript", FALSE))
                          <=> (Selected(l.observed) = "")
                   /\ Selected(l.observed) # "" => l.scriptContent = Selected(l.observed)

----------------------------------------------------------------------------
(* C4 *)

\* C4: a request with finalizing=true and an empty destroy script, whatever
\* the deploy script, ends with state "error", a message containing
\* "destroy script is missing", and no backend, ConfigMap, Secret, build or run
\* action.
C4_MissingDestroyScript ==
    \A s \in Syncs :
        LET l == sync[s]
        IN  (Finished(l) /\ l.observed.finalizing /\ l.observed.spec.destroy = "")
                => /\ l.response.state = "error"
                   /\ Contains(l.response.message, "destroy script is missing")
                   /\ NoCallIn(l.log, StageCalls)

----------------------------------------------------------------------------
(* C5 *)

\* a backend map that is nil, empty, without a "provider" key, or with an empty
\* "provider" value
NoProvider(backend) ==
    \/ backend.isNil
    \/ DOMAIN backend.kv = {}
    \/ "provider" \notin DOMAIN backend.kv
    \/ backend.kv["provider"] = ""

PastBackend(l) ==
    /\ l.pc \notin {"idle", "rejected", "select", "backend"}
    /\ l.log[1] = Call("selectScript", TRUE)

\* C5: when the backend map is nil, empty, has no "provider" key or an empty
\* "provider" value, setupBackend returns no error, empty Dockerfile additions
\* and providerExists = false, the registry is not consulted, and the sync
\* continues to the ConfigMap stage.
C5_NoProviderSkipsBackend ==
    \A s \in Syncs :
        LET l == sync[s]
        IN  (PastBackend(l) /\ NoProvider(l.observed.spec.backend))
                => /\ NoCallIn(l.log, {"GetProvider", "SetupBackend",
                                       "GetDockerfileAdditions"})
                   /\ l.dockerfileAdditions = ""
                   /\ ~l.providerExists
                   /\ \/ l.pc = "configmap"
                      \/ Count(l.log, "CreateDockerfileConfigMap") = 1

\* a sync whose backend has an empty provider value is at the Secret stage
C5_Witness ==
    \E s \in Syncs :
        /\ sync[s].pc = "secret"
        /\ sync[s].observed.spec.backend = MkMap([provider |-> ""])

----------------------------------------------------------------------------
(* C6 *)

UnknownProvider(backend) ==
    /\ ~NoProvider(backend)
    /\ backend.kv["provider"] \notin Providers

\* C6: when backend.provider names a provider the registry does not know, the
\* sync ends with state "error", the provider's SetupBackend is never called,
\* and no ConfigMap, Secret, build pod or run pod action is performed.
C6_UnknownProviderIsTerminal ==
    \A s \in Syncs :
        LET l == sync[s]
        IN  (l.pc # "idle" /\ UnknownProvider(l.observed.spec.backend))
                => /\ NoCallIn(l.log, StageCalls \ {"GetProvider"})
                   /\ Finished(l) => l.response.state = "error"
                   /\ l.pc \in {"select", "backend", "write", "done"}

\* a sync returned after the registry did not know its provider
C6_Witness ==
    \E s \in Syncs :
        /\ Finished(sync[s])
        /\ UnknownProvider(sync[s].observed.spec.backend)
        /\ CountOf(sync[s].log, Call("GetProvider", FALSE)) = 1

----------------------------------------------------------------------------
(* C7 *)

\* C7: a configuration error is never retried: when the resolved provider's
\* SetupBackend fails it has been called exactly once in that sync, the status
\* state is "error", and no retry delay, build or run action occurs.
C7_SetupFailureNotRetried ==
    \A s \in Syncs :
        LET l == sync[s]
        IN  CountOf(l.log, Call("SetupBackend", FALSE)) > 0
                => /\ Count(l.log, "SetupBackend") = 1
                   /\ l.pc \in {"write", "done"}
                   /\ l.response.state = "error"
                   /\ NoCallIn(l.log, {"Sleep", "EnsurePVC", "GetPod", "PatchPod",
                                       "DeletePod", "CreatePod", "CreateRunPod"})

\* a sync returned after its provider's SetupBackend failed
C7_Witness ==
    \E s \in Syncs :
        /\ Finished(sync[s])
        /\ CountOf(sync[s].log, Call("SetupBackend", FALSE)) = 1

----------------------------------------------------------------------------
(* C8 *)

\* C8: the run stage makes at most 10 run-unit attempts, and if an attempt
\* succeeds no further attempt (and no wait) is made and the final status has
\* state "Success".
C8_AtMostTenAttempts ==
    \A s \in Syncs :
        LET l == sync[s]
        IN  /\ Count(l.log, "CreateRunPod") <= 10
            /\ \A k \in 1..Len(l.log) :
                  l.log[k] = Call("CreateRunPod", TRUE)
                      => /\ \A m \in (k + 1)..Len(l.log) : l.log[m].call = "UpdateStatus"
                         /\ l.pc \in {"write", "done"}
                         /\ l.response.state = "Success"

\* a sync returned after its 10th attempt succeeded
C8_Witness ==
    \E s \in Syncs :
        /\ Finished(sync[s])
        /\ Count(sync[s].log, "CreateRunPod") = 10
        /\ CountOf(sync[s].log, Call("CreateRunPod", TRUE)) = 1

----------------------------------------------------------------------------
(* C9 *)

\* C9: the final status has state "Failed" if and only if all 10 run attempts
\* of the sync failed, and then its message is the cause of the 10th attempt.
C9_FailedIffTenFailures ==
    \A s \in Syncs :
        LET l == sync[s]
        IN  l.pc \in {"write", "done"}
                => /\ (l.response.state = "Failed")
                          <=> (CountOf(l.log, Call("CreateRunPod", FALSE)) = 10)
                   /\ l.response.state = "Failed"
                          => /\ Count(l.log, "CreateRunPod") = 10
                             /\ l.lastCause \in Causes
                             /\ l.response.message = l.lastCause

\* a sync returned after 10 failed attempts
C9_Witness ==
    \E s \in Syncs :
        /\ Finished(sync[s])
        /\ CountOf(sync[s].log, Call("CreateRunPod", FALSE)) = 10
        /\ sync[s].response.message = <<"cause2">>

----------------------------------------------------------------------------
(* C10 *)

Stage1Failed(l) == Len(l.log) > 0 /\ l.log[1] = Call("selectScript", FALSE)

Stage3Failed(l) ==
    \E k \in 1..Len(l.log) : StageOf(l.log[k].call) = 2 /\ ~l.log[k].ok

RunSucceeded(l) == CountOf(l.log, Call("CreateRunPod", TRUE)) > 0

\* the status of a failed stage 1 or 3 with the given prefix, and of a
\* successful run with the given message
StatusComposition(l, prefix, success) ==
    /\ Stage1Failed(l)
          => l.response \in
               { [state |-> "error",
                  message |-> <<prefix, "executing deploy script", ": ",
                                "deploy script is missing">>],
                 [state |-> "error",
                  message |-> <<prefix, "executing destroy script", ": ",
                                "destroy script is missing">>] }
    /\ Stage3Failed(l)
          => /\ l.response.state = "error"
             /\ Len(l.response.message) > 4
             /\ SubSeq(l.response.message, 1, 3) = <<prefix, "setting up backend", ": ">>
             /\ l.response.message[4] \in {"error getting provider: ",
                                          "error setting up "}
    /\ RunSucceeded(l)
          => l.response = [state |-> "Success", message |-> <<success>>]

----------------------------------------------------------------------------
(* C11 *)

BuildCalls == {"EnsurePVC", "GetPod", "PatchPod", "DeletePod", "CreatePod"}

BuildFailed(l) == \E k \in 1..Len(l.log) : l.log[k].call \in BuildCalls /\ ~l.log[k].ok

\* C11: in any sync the build unit is requested at most once (no call of the
\* build stage is made twice), and a sync whose build failed makes no run
\* attempt and no retry delay: it goes to its status write with the build's
\* error.
C11_BuildNotRetried ==
    \A s \in Syncs :
        LET l == sync[s]
        IN  /\ \A c \in BuildCalls : Count(l.log, c) <= 1
            /\ BuildFailed(l)
                  => /\ NoCallIn(l.log, {"CreateRunPod", "Sleep"})
                     /\ l.pc \in {"write", "done"}
                     /\ l.response.state = "error"
                     /\ l.response.message[2] = "creating build job"

\* a sync returned after its build pod's create failed
C11_Witness ==
    \E s \in Syncs :
        /\ Finished(sync[s])
        /\ CountOf(sync[s].log, Call("CreatePod", FALSE)) = 1
        /\ sync[s].log[Len(sync[s].log)].call = "UpdateStatus"

----------------------------------------------------------------------------
(* C12, C13, C14 *)

\* the pods of a sync's build pod name, and those of them not marked for deletion
BuildPodsOf(l) == PodsAt(Ns(l), podNameOf(Name(l)))

LivePods(ps) == {p \in ps : ~p.terminating}

\* the sync made its create call, and the call succeeded or failed only because
\* a pod of the name was still in the store
CreateIssued(l) ==
    \/ CountOf(l.log, Call("CreatePod", TRUE)) = 1
    \/ /\ CountOf(l.log, Call("CreatePod", FALSE)) = 1
       /\ l.pc \in {"write", "done"}
       /\ Contains(l.response.message, "\" already exists")

\* the sync's create call failed because the pod it had just deleted was still
\* in the store
CreateHitDeletion(l) ==
    /\ CountOf(l.log, Call("DeletePod", TRUE)) = 1
    /\ CountOf(l.log, Call("CreatePod", FALSE)) = 1
    /\ l.pc \in {"write", "done"}
    /\ Contains(l.response.message, "\" already exists")

\* the position of a call in a log (0 if absent)
IndexOf(log, c) ==
    IF \E k \in 1..Len(log) : log[k].call = c
    THEN CHOOSE k \in 1..Len(log) : log[k].call = c
    ELSE 0

\* C12: the second of two CreateBuildPod calls in sequence for one name, made
\* while the first call's pod is in the store, leaves exactly one live build
\* pod of that name, and if the first pod carried finalizers they are cleared
\* before the second create is issued.
C12_TwoCallsLeaveOneLivePod ==
    \A s \in Syncs :
        LET l == sync[s]
        IN  (l.n = 2 /\ l.pod.owner = 1 /\ CreateIssued(l))
               => /\ Cardinality(LivePods(BuildPodsOf(l))) = 1
                  /\ l.pod.finalizers
                        => /\ CountOf(l.log, Call("PatchPod", TRUE)) = 1
                           /\ IndexOf(l.log, "PatchPod") < IndexOf(l.log, "CreatePod")

\* C13: there is at most one live build pod per (resource, role), and every
\* CreateBuildPod call whose create is issued ends with its own newly created
\* pod in the store, whatever the state of the pod it found.
C13_NewRequestSupersedes ==
    /\ \A p, q \in pods : (p.ns = q.ns /\ p.name = q.name) => p = q
    /\ \A s \in Syncs :
          CreateIssued(sync[s])
             => (sync[s].pc \in {"sleep", "run"}
                    => \E p \in LivePods(BuildPodsOf(sync[s])) : p.owner = sync[s].n)
                /\ (sync[s].pc \in {"write", "done"}
                       => CountOf(sync[s].log, Call("CreatePod", TRUE)) = 1)

\* C14: a create that fails only because the deletion of the previous pod of
\* the name is still in flight does not make the sync end with a terminal
\* failure status.
C14_InFlightDeletionTolerated ==
    \A s \in Syncs :
        CreateHitDeletion(sync[s]) => sync[s].response.state \notin {"error", "Failed"}

----------------------------------------------------------------------------
(* C15 *)

\* the store objects and the path a sync generates for its resource
GeneratedNames(l) ==
    [ pod       |-> <<Ns(l), podNameOf(Name(l))>>,
      secret    |-> <<Ns(l), secretNameOf(Name(l))>>,
      configMap |-> <<Ns(l), configMapNameOf(Name(l))>>,
      context   |-> l.repoDir ]

\* C15: two syncs in flight for two distinct identities generate distinct
\* names for the build pod, the Secret and the ConfigMap and distinct build
\* context paths, and two build pods of distinct identities have distinct
\* build contexts.
C15_DistinctIdentitiesIsolated ==
    /\ \A s, t \in Syncs :
          ( /\ sync[s].observed.id \in DOMAIN resources
            /\ sync[t].observed.id \in DOMAIN resources
            /\ sync[s].observed.id # sync[t].observed.id
            /\ sync[s].repoDir # ""
            /\ sync[t].repoDir # "" )
             => \A f \in {"pod", "secret", "configMap", "context"} :
                   GeneratedNames(sync[s])[f] # GeneratedNames(sync[t])[f]
    /\ \A p, q \in pods :
          <<p.ns, p.name>> # <<q.ns, q.name>> => p.context # q.context

----------------------------------------------------------------------------
(* C16 *)

FromScheduler(l) == l.pc # "idle" /\ l.origin = "scheduler"

\* C16: the sync the scheduler starts for a listed resource R works on a
\* SyncRequest whose parent name, namespace and spec are those of R, and if R
\* has a deploy script the sync does not end at script selection.
C16_SchedulerSyncsListedResource ==
    \A s \in Syncs :
        LET l == sync[s]
        IN  FromScheduler(l)
               => /\ l.observed.id = l.item
                  /\ l.observed.spec = resources[l.item]
                  /\ (resources[l.item].deploy # "" /\ l.pc \in {"write", "done"})
                        => ~Stage1Failed(l)

----------------------------------------------------------------------------
(* C17 *)

\* a /sync request for the resource has been delivered
HttpDelivered(id) ==
    \E s \in Syncs : sync[s].origin = "http" /\ sync[s].item = id

\* a sync the scheduler started for the resource has written its status
SchedulerWrote(id) ==
    \E s \in Syncs :
        /\ FromScheduler(sync[s])
        /\ sync[s].item = id
        /\ sync[s].observed.id = id
        /\ CountOf(sync[s].log, Call("UpdateStatus", TRUE)) = 1

\* no sync started by the scheduler has written the status of its resource
NoSchedulerWrite == \A id \in DOMAIN resources : ~SchedulerWrote(id)

\* C17: for a listed resource whose /sync request is never delivered, a sync
\* started by the scheduler for that resource eventually writes its status.
C17_SchedulerEventuallyWrites ==
    \A id \in Identities :
        id \in DOMAIN resources => <>(HttpDelivered(id) \/ SchedulerWrote(id))

----------------------------------------------------------------------------
(* C18 *)

\* the model has room for one more task per listed resource
HasRoom ==
    /\ started + Cardinality(DOMAIN resources) <= MaxSyncs
    /\ Cardinality(InFlight) + Cardinality(DOMAIN resources) <= maxInFlight

\* the tasks a step starts for the scheduler
SpawnedFor(id) ==
    {s \in Syncs : sync[s].pc = "idle" /\ sync'[s].pc = "select"
                   /\ sync'[s].origin = "scheduler" /\ sync'[s].item = id}

\* C18: a pass of the scheduler can start whatever syncs are in flight (as
\* long as the model has room for its tasks), and a pass that starts tasks
\* starts exactly one per listed resource and leaves every sync in flight as
\* it is, whoever started it and whatever resource it works on.
C18_TickDoesNotWait ==
    /\ [](HasRoom => ENABLED <<TickSpawns>>_vars)
    /\ [][(\E id \in DOMAIN resources : SpawnedFor(id) # {})
             => /\ \A id \in DOMAIN resources : Cardinality(SpawnedFor(id)) = 1
                /\ \A t \in InFlight : sync'[t] = sync[t]]_vars

\* a scheduler sync started while another sync of the same resource, started
\* by a /sync request or by an earlier pass, is in flight
C18_Witness ==
    \E s, t \in Syncs :
        /\ s # t
        /\ FromScheduler(sync[s])
        /\ sync[s].overlap
        /\ sync[t].pc \notin {"idle", "done"}
        /\ sync[t].item = sync[s].item
        /\ sync[t].n < sync[s].n

----------------------------------------------------------------------------
(* C19 *)

\* two syncs of one declared resource that were in flight together, have both
\* issued the create of their build pod and have both finished, with no
\* failure reported by a collaborator
OverlappedAndFinished(s, t) ==
    /\ s # t
    /\ Finished(sync[s])
    /\ Finished(sync[t])
    /\ CreateIssued(sync[s])
    /\ CreateIssued(sync[t])
    /\ sync[s].observed.id = sync[t].observed.id
    /\ sync[s].observed.id \in DOMAIN resources
    /\ sync[s].n < sync[t].n
    /\ sync[t].overlap
    /\ faults = AtMostFaults(MaxFaults)

\* C19: after two overlapping syncs of one resource have both finished, the
\* stored status is the one computed by the sync that wrote last, and exactly
\* one live build pod of the resource's build pod name exists.
C19_OverlapWellDefined ==
    \A s, t \in Syncs :
        OverlappedAndFinished(s, t)
           => /\ \E u \in {s, t} : sync[u].latest
              /\ \A u \in {s, t} :
                    sync[u].latest => status[sync[u].observed.id] = sync[u].response
              /\ Cardinality(LivePods(BuildPodsOf(sync[s]))) = 1

----------------------------------------------------------------------------
(* C20 *)

\* C20: no step changes the declared resources: which identities are declared
\* (their metadata) and the spec of each stay as they were, whatever the syncs
\* write.
C20_OnlyStatusWritten == [][resources' = resources]_vars

\* a sync's status write has reached the store
C20_Witness ==
    \E s \in Syncs :
        /\ Finished(sync[s])
        /\ sync[s].latest
        /\ status[sync[s].observed.id] = sync[s].response
        /\ status[sync[s].observed.id] # NoStatus

----------------------------------------------------------------------------
(* C21 *)

StatusStates == {"Success", "Failed", "error"}

WellFormedStatus(st) == st.state \in StatusStates /\ Len(st.message) > 0

\* C21: every status a sync is about to write, has written or returns, and
\* every status stored for a resource once it has been written, has its state
\* in {"Success", "Failed", "error"} and a message.
C21_StatusWellFormed ==
    /\ \A s \in Syncs :
          /\ sync[s].pc \in {"write", "done"} => WellFormedStatus(sync[s].response)
          /\ sync[s].pc = "done" => /\ sync[s].written = sync[s].response
                                    /\ WellFormedStatus(sync[s].written)
    /\ \A id \in DOMAIN status : status[id] # NoStatus => WellFormedStatus(status[id])

\* a sync's status "Failed" has been written to the store
C21_Witness ==
    \E s \in Syncs :
        /\ Finished(sync[s])
        /\ sync[s].latest
        /\ sync[s].response.state = "Failed"
        /\ status[sync[s].observed.id] = sync[s].response

----------------------------------------------------------------------------
(* C22 *)

\* C22: a sync that has made k run attempts and has left the run stage has
\* waited exactly k-1 times.
C22_DelayOnlyBetweenAttempts ==
    \A s \in Syncs :
        LET l == sync[s]
        IN  (l.pc \in {"write", "done"} /\ Count(l.log, "CreateRunPod") > 0)
               => Count(l.log, "Sleep") = Count(l.log, "CreateRunPod") - 1

----------------------------------------------------------------------------
(* C23 *)

\* C23: every sync that has started reaches the end of handleSyncRequest, with
\* its status write made, and it never makes more than maxRetries run
\* attempts.
C23_EverySyncTerminates ==
    /\ \A s \in Syncs : (sync[s].pc \notin {"idle", "rejected"}) ~> Finished(sync[s])
    /\ [](\A s \in Syncs :
            /\ Count(sync[s].log, "CreateRunPod") <= maxRetries
            /\ Finished(sync[s]) => Count(sync[s].log, "UpdateStatus") = 1)

\* a sync has returned after using up all its attempts and all its waits
C23_Witness ==
    \E s \in Syncs :
        /\ Finished(sync[s])
        /\ Count(sync[s].log, "CreateRunPod") = maxRetries
        /\ Count(sync[s].log, "Sleep") = maxRetries
        /\ sync[s].log[Len(sync[s].log)].call = "UpdateStatus"

----------------------------------------------------------------------------
(* C24 *)

\* C24: while a sync is in its retry wait, every other sync in flight can take
\* its next step, whatever stage it is at and whatever resource it works on,
\* and a new sync can start (as long as the model has room for it).
C24_WaitHoldsNoLock ==
    \A s, t \in Syncs :
        (s # t /\ s \in Waiting)
           => /\ t \in InFlight => ENABLED SyncStep(t)
              /\ (t \notin InFlight /\ started < MaxSyncs) => ENABLED StartSync(t)

\* a sync of the same resource started during another sync's first wait, ran
\* every stage and wrote its status while that wait was still going on
C24_Witness ==
    \E s, t \in Syncs :
        /\ s # t
        /\ s \in Waiting
        /\ Count(sync[s].log, "Sleep") = 0
        /\ sync[t].duringWait
        /\ sync[t].item = sync[s].item
        /\ Finished(sync[t])
        /\ CountOf(sync[t].log, Call("CreateRunPod", TRUE)) = 1
        /\ sync[t].latest
        /\ status[sync[t].observed.id] = sync[t].response

----------------------------------------------------------------------------
(* C25 *)

\* the actions handleSyncRequest names in its error responses
Actions ==
    {"executing deploy script", "executing destroy script", "setting up backend",
     "creating Dockerfile ConfigMap", "creating Docker config secret",
     "creating build job"}

\* C25: the status of a failed sync carries the error of the failing call
\* unchanged (lastCause, as the call returned it): as the whole message when
\* the run stage failed, and as all that follows "<action>: " when another
\* stage failed.
C25_CauseVerbatim ==
    \A s \in Syncs :
        LET l   == sync[s]
            msg == l.response.message
        IN  l.pc \in {"write", "done"}
               => /\ l.response.state = "Failed"
                     => (l.lastCause # NoErr /\ msg = l.lastCause)
                  /\ l.response.state = "error"
                     => /\ l.lastCause # NoErr
                        /\ Len(msg) > 3
                        /\ msg[2] \in Actions
                        /\ msg[3] = ": "
                        /\ SubSeq(msg, 4, Len(msg)) = l.lastCause

\* a sync returned with the error of a failed ConfigMap creation in its status
C25_Witness ==
    \E s \in Syncs :
        /\ Finished(sync[s])
        /\ sync[s].log[Len(sync[s].log) - 1] = Call("CreateDockerfileConfigMap", FALSE)
        /\ sync[s].response.message[2] = "creating Dockerfile ConfigMap"
        /\ sync[s].lastCause \in Causes

----------------------------------------------------------------------------
(* C26 *)

\* the call logged before the k-th one
Before(log, k) == IF k > 1 THEN log[k - 1] ELSE Call("", FALSE)

\* C26: in one CreateBuildPod call the lookup comes first; the patch follows a
\* lookup that found a pod with finalizers, and only that; the delete follows
\* the patch, or a lookup that found a pod without finalizers; the create
\* follows the delete directly, or a lookup that found no pod; once the delete
\* has returned the next call is the create, with no other call in between.
C26_BuildCallsInOrder ==
    \A s \in Syncs :
        LET l == sync[s]
        IN  /\ \A k \in 1..Len(l.log) :
                  /\ l.log[k].call = "GetPod"
                        => Before(l.log, k) = Call("EnsurePVC", TRUE)
                  /\ l.log[k].call = "PatchPod"
                        => /\ Before(l.log, k) = Call("GetPod", TRUE)
                           /\ l.pod # NoPod
                           /\ l.pod.finalizers
                  /\ l.log[k].call = "DeletePod"
                        => /\ l.pod # NoPod
                           /\ Before(l.log, k) =
                                 IF l.pod.finalizers THEN Call("PatchPod", TRUE)
                                 ELSE Call("GetPod", TRUE)
                  /\ l.log[k].call = "CreatePod"
                        => Before(l.log, k) =
                              IF l.pod # NoPod THEN Call("DeletePod", TRUE)
                              ELSE Call("GetPod", TRUE)
            /\ (Len(l.log) > 0 /\ l.log[Len(l.log)] = Call("DeletePod", TRUE))
                  => l.pc = "buildCreate"

\* a sync has looked up, patched and deleted the old pod and has issued its
\* create while the old pod was still in the store
C26_Witness ==
    \E s \in Syncs :
        LET l == sync[s]
            n == Len(l.log)
        IN  /\ l.pc = "write"
            /\ n > 4
            /\ SubSeq(l.log, n - 3, n) =
                  <<Call("GetPod", TRUE), Call("PatchPod", TRUE),
                    Call("DeletePod", TRUE), Call("CreatePod", FALSE)>>
            /\ l.response.message[Len(l.response.message)] = "\" already exists"
            /\ BuildPodsOf(l) # {}

----------------------------------------------------------------------------
(* C27 *)

NoVariables(l) == l.observed.spec.variables.isNil \/ Len0(l.observed.spec.variables) = 0

\* C27: the environment of a sync is derived from its variables alone, and is
\* empty when they are absent or empty; whatever the variables are, the first
\* call is the script selection, its outcome is the one the scripts decide,
\* and the run units the sync submits carry its environment.
C27_EmptyVariablesNoError ==
    \A s \in Syncs :
        LET l == sync[s]
        IN  Len(l.log) > 0
               => /\ NoVariables(l) => Len0(l.envVars) = 0
                  /\ ~NoVariables(l) => l.envVars.kv = l.observed.spec.variables.kv
                  /\ l.log[1] = Call("selectScript", selectScript(l.observed).err = NoErr)
                  /\ \A k \in 1..Len(l.log) : l.log[k].call \in StageCalls \cup
                                                 {"selectScript", "UpdateStatus"}
                  /\ CountOf(l.log, Call("CreateRunPod", TRUE)) = 1
                        => [ns |-> Ns(l), name |-> Name(l), env |-> l.envVars]
                              \in runUnits

\* a sync without variables has run its script with an empty environment
C27_Witness ==
    \E s \in Syncs :
        /\ Finished(sync[s])
        /\ sync[s].observed.spec.variables = NilMap
        /\ sync[s].observed.id \in DOMAIN resources
        /\ sync[s].response.state = "Success"
        /\ [ns |-> Ns(sync[s]), name |-> Name(sync[s]), env |-> NilMap] \in runUnits

----------------------------------------------------------------------------
(* C28 *)

\* the error a failed build stage handed to its caller is in the status
BuildErrorReturned(l) ==
    /\ l.pc \in {"write", "done"}
    /\ l.response.state = "error"
    /\ l.response.message[2] = "creating build job"
    /\ l.lastCause # NoErr
    /\ SubSeq(l.response.message, 4, Len(l.response.message)) = l.lastCause

\* C28: when the lookup fails (not-found is no failure), or the finalizer
\* patch fails, or the delete fails, for any reason the store can give,
\* CreateBuildPod returns that error at once and never issues the create; after
\* a failed patch it never issues the delete either.
C28_FailedPodCallReturns ==
    \A s \in Syncs :
        LET l == sync[s]
        IN  \A k \in 1..Len(l.log) :
               ( /\ l.log[k].call \in {"GetPod", "PatchPod", "DeletePod"}
                 /\ ~l.log[k].ok )
                  => /\ BuildErrorReturned(l)
                     /\ k < Len(l.log) => l.log[k + 1].call = "UpdateStatus"
                     /\ Count(l.log, "CreatePod") = 0
                     /\ l.log[k].call = "PatchPod" => Count(l.log, "DeletePod") = 0
                     /\ l.log[k].call = "GetPod"
                           => /\ Count(l.log, "PatchPod") = 0
                              /\ Count(l.log, "DeletePod") = 0

\* a sync returned with the not-found error of its delete: the pod it had
\* looked up was removed before the delete
C28_Witness ==
    \E s \in Syncs :
        /\ Finished(sync[s])
        /\ CountOf(sync[s].log, Call("DeletePod", FALSE)) = 1
        /\ sync[s].lastCause = NotFound(podNameOf(Name(sync[s])))

----------------------------------------------------------------------------
(* C29 *)

\* the lookup of the sync has answered not-found
FoundNoPod(l) == CountOf(l.log, Call("GetPod", TRUE)) = 1 /\ l.pod = NoPod

\* C29: after a lookup that found no pod, CreateBuildPod issues no patch and
\* no delete; its next call is the create, and it issues it exactly once.
C29_NoPodOnlyCreate ==
    \A s \in Syncs :
        LET l == sync[s]
        IN  FoundNoPod(l)
               => /\ Count(l.log, "PatchPod") = 0
                  /\ Count(l.log, "DeletePod") = 0
                  /\ IF l.log[Len(l.log)] = Call("GetPod", TRUE)
                     THEN l.pc = "buildCreate" /\ Count(l.log, "CreatePod") = 0
                     ELSE /\ Count(l.log, "CreatePod") = 1
                          /\ l.log[IndexOf(l.log, "GetPod") + 1].call = "CreatePod"

\* a sync that found no pod has created its build pod and returned
C29_Witness ==
    \E s \in Syncs :
        /\ Finished(sync[s])
        /\ FoundNoPod(sync[s])
        /\ CountOf(sync[s].log, Call("CreatePod", TRUE)) = 1
        /\ \E p \in BuildPodsOf(sync[s]) : p.owner = sync[s].n

----------------------------------------------------------------------------
(* C30 *)

PodCalls == {"GetPod", "PatchPod", "DeletePod", "CreatePod"}

\* C30: every pod call of the build stage comes after a successful EnsurePVC
\* of the same sync, and a sync whose EnsurePVC failed makes no pod call at
\* all and returns the error.
C30_ClaimEnsuredFirst ==
    \A s \in Syncs :
        LET l   == sync[s]
            pvc == IndexOf(l.log, "EnsurePVC")
        IN  /\ \A k \in 1..Len(l.log) :
                  l.log[k].call \in PodCalls
                     => (pvc > 0 /\ pvc < k /\ l.log[pvc].ok)
            /\ (pvc > 0 /\ ~l.log[pvc].ok)
                  => /\ NoCallIn(l.log, PodCalls)
                     /\ BuildErrorReturned(l)

\* EnsurePVC failed for a sync whose resource has a live build pod in the
\* store, and the sync returned
C30_Witness ==
    \E s \in Syncs :
        /\ Finished(sync[s])
        /\ CountOf(sync[s].log, Call("EnsurePVC", FALSE)) = 1
        /\ LivePods(BuildPodsOf(sync[s])) # {}

----------------------------------------------------------------------------
(* C31 *)

\* the caller has asked for the teardown of the resource of l, and l has
\* selected the destroy script
TearsDown(l) ==
    /\ l.origin = "http"
    /\ l.pc \notin {"idle", "rejected", "select"}
    /\ l.observed.finalizing
    /\ l.item \in DOMAIN resources
    /\ resources[l.item].destroy # ""
    /\ l.scriptContent = resources[l.item].destroy

\* C31: a sync started by the scheduler has finalizing = false, and the script
\* it selects and runs is never the destroy script of the resource it was
\* started for, also while that resource is being torn down.
C31_SchedulerNeverFinalizes ==
    \A s \in Syncs :
        LET l == sync[s]
        IN  FromScheduler(l)
               => /\ ~l.observed.finalizing
                  /\ resources[l.item].destroy # ""
                        => l.scriptContent # resources[l.item].destroy
                  /\ l.scriptContent = ""
                        => Count(l.log, "CreateRunPod") = 0

\* a sync started by the scheduler has returned while a /sync request with
\* finalizing=true, received before it, is running the destroy script of the
\* same resource
C31_Witness ==
    \E s, t \in Syncs :
        /\ s # t
        /\ FromScheduler(sync[s])
        /\ Finished(sync[s])
        /\ TearsDown(sync[t])
        /\ sync[t].item = sync[s].item
        /\ sync[t].n < sync[s].n

----------------------------------------------------------------------------
(* C32 *)

\* C32: an iteration of Reconcile's loop whose list call fails starts no sync
\* and writes nothing, neither a status nor anything else in the store; the
\* loop is running after it, and after any other step, and its next pass
\* starts a sync per listed resource as soon as the model has room for them.
C32_FailedListOnlySkipsThePass ==
    /\ [][ /\ TickListFails
              => /\ sync' = sync
                 /\ started' = started
                 /\ status' = status
                 /\ resources' = resources
                 /\ store' = store
           /\ scheduler' = "running" ]_vars
    /\ []((faults.lists > 0 /\ HasRoom) => ENABLED TickSpawns)

\* a pass has started a sync after an earlier pass's list had failed
C32_Witness ==
    \E s \in Syncs :
        /\ FromScheduler(sync[s])
        /\ sync[s].afterListError
        /\ faults.lists > 0
        /\ scheduler = "running"

----------------------------------------------------------------------------
(* C33 *)

\* the status write of the sync failed
WriteFailed(l) == CountOf(l.log, Call("UpdateStatus", FALSE)) > 0

\* C33: a sync whose status write failed has returned all the same, after that
\* one attempt to write; what it returns, and what ServeHTTP answers with 200,
\* is the status it tried to write, composed before the write and saying
\* nothing of the write's failure.
C33_FailedWriteSwallowed ==
    \A s \in Syncs :
        LET l == sync[s]
        IN  WriteFailed(l)
               => /\ Finished(l)
                  /\ Count(l.log, "UpdateStatus") = 1
                  /\ l.response = l.written
                  /\ WellFormedStatus(l.response)
                  /\ l.response.state = "error"
                        => l.response.message[2] \in Actions
                  /\ l.origin = "http" => l.reply = httpReply(NoErr, l.written)
                  /\ ~l.latest

\* the status a /sync request was answered with is not the status the store
\* holds for the resource: the write failed
C33_Witness ==
    \E s \in Syncs :
        LET l == sync[s]
        IN  /\ Finished(l)
            /\ WriteFailed(l)
            /\ l.observed.id \in DOMAIN resources
            /\ l.reply.code = 200
            /\ l.reply.body = l.response
            /\ status[l.observed.id] # l.reply.body

----------------------------------------------------------------------------
(* C34 *)

\* ServeHTTP has answered 400 and is about to return
Rejected(l) == l.pc = "rejected"

\* C34: a /sync request whose body the decoder rejects is answered with 400
\* and the decoder's error; its handler has made no call of the pipeline, and
\* the steps of its handler leave the resources, their statuses and the store
\* as they are.
\* A /sync request that was decoded is answered once its sync has returned,
\* with 200 and the status of the sync, whatever its state.
C34_BadBody400Else200 ==
    /\ [](\A s \in Syncs :
            LET l == sync[s]
            IN  /\ Rejected(l)
                   => /\ l.reply.code = 400
                      /\ l.reply.text # <<>>
                      /\ l.reply.body = NoStatus
                      /\ l.log = <<>>
                      /\ l.response = NoStatus
                /\ (l.origin = "http" /\ ~Rejected(l))
                   => IF Finished(l)
                      THEN /\ l.reply = [code |-> 200, text |-> <<>>,
                                         body |-> l.response]
                           /\ l.response.state \in StatusStates
                      ELSE l.reply = NoReply)
    /\ [][(\E s \in Syncs : /\ sync'[s] # sync[s]
                             /\ (Rejected(sync[s]) \/ Rejected(sync'[s])))
             => /\ status' = status
                /\ resources' = resources
                /\ store' = store]_vars

\* a request with a bad body has been answered 400 after a request that was
\* answered 200 with a "Failed" status, which the store still holds
C34_Witness ==
    \E s \in Syncs :
        /\ Rejected(sync[s])
        /\ sync[s].reply.code = 400
        /\ \E id \in DOMAIN resources : status[id].state = "Failed"

----------------------------------------------------------------------------
(* C35 *)

\* the build stage of the sync failed, or its run attempts are used up
BuildOrRunFailed(l) ==
    /\ l.pc \in {"write", "done"}
    /\ \/ BuildFailed(l)
       \/ l.response.state = "Failed"

\* C35: when the build stage or the run stage of a sync has failed, the
\* Dockerfile ConfigMap and the registry Secret the sync created are in the
\* store, and so is the build pod if the sync created one: nothing is rolled
\* back, before or after the status write.
C35_NoRollback ==
    \A s \in Syncs :
        LET l == sync[s]
        IN  BuildOrRunFailed(l)
               => /\ CountOf(l.log, Call("CreateDockerfileConfigMap", TRUE)) = 1
                  /\ \E cm \in configMaps :
                        cm.ns = Ns(l) /\ cm.name = configMapNameOf(Name(l))
                  /\ CountOf(l.log, Call("CreateDockerConfigSecret", TRUE)) = 1
                  /\ [ns |-> Ns(l), name |-> secretNameOf(Name(l))] \in secrets
                  /\ CountOf(l.log, Call("CreatePod", TRUE)) > 0
                        => \E p \in pods :
                              /\ p.ns = Ns(l)
                              /\ p.name = podNameOf(Name(l))
                              /\ p.owner = l.n
                              /\ ~p.terminating

\* a sync has returned "Failed" and its ConfigMap, its Secret and its build
\* pod are in the store
C35_Witness ==
    \E s \in Syncs :
        LET l == sync[s]
        IN  /\ Finished(l)
            /\ l.response.state = "Failed"
            /\ \E cm \in configMaps :
                  cm.ns = Ns(l) /\ cm.name = configMapNameOf(Name(l))
            /\ [ns |-> Ns(l), name |-> secretNameOf(Name(l))] \in secrets
            /\ \E p \in pods : p.owner = l.n /\ ~p.terminating

----------------------------------------------------------------------------
(* C36 *)

\* the calls of the stages after the Secret stage
LaterCalls == BuildCalls \cup {"CreateRunPod", "Sleep"}

\* a call of a stage before the run stage has failed
EarlyStageFailed(l) ==
    \E k \in 1..Len(l.log) :
        l.log[k].call \notin {"CreateRunPod", "Sleep", "UpdateStatus"} /\ ~l.log[k].ok

\* C36: a sync whose ConfigMap call or Secret call failed made that call once,
\* makes no call of the build and run stages (and no Secret call after a failed
\* ConfigMap call), and ends with state "error" and the action of the failed
\* stage in its message; the status of a sync has state "error" exactly when
\* a call of a stage before the run stage failed, and "Failed" only when no
\* such call failed.
C36_AssetFailureIsError ==
    \A s \in Syncs :
        LET l == sync[s]
        IN  /\ CountOf(l.log, Call("CreateDockerfileConfigMap", FALSE)) > 0
               => /\ l.pc \in {"write", "done"}
                  /\ Count(l.log, "CreateDockerfileConfigMap") = 1
                  /\ NoCallIn(l.log, LaterCalls \cup {"CreateDockerConfigSecret"})
                  /\ l.response.state = "error"
                  /\ l.response.message[2] = "creating Dockerfile ConfigMap"
            /\ CountOf(l.log, Call("CreateDockerConfigSecret", FALSE)) > 0
               => /\ l.pc \in {"write", "done"}
                  /\ Count(l.log, "CreateDockerConfigSecret") = 1
                  /\ NoCallIn(l.log, LaterCalls)
                  /\ l.response.state = "error"
                  /\ l.response.message[2] = "creating Docker config secret"
            /\ l.pc \in {"write", "done"}
               => /\ (l.response.state = "error") <=> EarlyStageFailed(l)
                  /\ l.response.state = "Failed" => ~EarlyStageFailed(l)

\* a sync has returned with the error of its Secret call, leaving the
\* ConfigMap it had created
C36_Witness ==
    \E s \in Syncs :
        LET l == sync[s]
        IN  /\ Finished(l)
            /\ CountOf(l.log, Call("CreateDockerConfigSecret", FALSE)) = 1
            /\ l.response.state = "error"
            /\ \E cm \in configMaps :
                  cm.ns = Ns(l) /\ cm.name = configMapNameOf(Name(l))

====
